---- MODULE Spec2Model ----
(***************************************************************************)
(* Nuvo multi-zone amplifier integration: the live-update dispatch layer   *)
(* (number.py, switch.py).  Entities subscribe a callback with the device  *)
(* connection, the connection pushes ZoneEQStatus messages to every        *)
(* subscriber, each entity filters by zone and caches its own control.     *)
(***************************************************************************)
EXTENDS Integers, Sequences, FiniteSets, TLC

\* ------------------------------------------------------------------ bounds
NumZones == 2       \* configured zones 1..NumZones
MaxLevel == 1       \* magnitudes carried by sample messages and host values
MaxAdded == 2       \* entities the host attaches in one run
MaxQueue == 1       \* commands accepted by the connection and not yet echoed
MaxTrips == 3       \* host -> device -> host round trips made in a row
MaxSetups == 3      \* successful setups of the config entry in one run

\* ------------------------------------------------------------ entity model
Zones == 1..NumZones

\* eq_name of Bass / Treble / Balance (number.py) and the switch's control
EQKinds == {"bass", "treble", "balance"}
Kinds == EQKinds \cup {"loudcmp"}

\* One Bass, Treble, Balance and LoudnessCompensation per configured zone.
Entities == [kind : Kinds, zone : Zones]

\* self._eq_value = 0 / self._loudness_compensation = False
InitialValue(e) == IF e.kind = "loudcmp" THEN FALSE ELSE 0

\* --------------------------------------------------------------- messages
\* A pushed message is a dict; message["event"] is an object with attributes.
\* present: the keys / attributes the message really has.
EventFields == {"zone", "bass", "treble", "balance", "balance_position", "loudcmp"}
AllKeys == EventFields \cup {"event"}

\* Sample events: in the samples of one zone every field takes two values
\* or more (position "L" also carries the negative tone levels and loudness
\* compensation off).
Event(z, lvl, pos) ==
    [present |-> AllKeys,
     zone |-> z,
     bass |-> IF pos = "L" THEN 0 - 2 * lvl ELSE 2 * lvl,
     treble |-> IF pos = "L" THEN 4 * lvl ELSE 0 - 4 * lvl,
     balance |-> IF pos = "C" THEN 0 ELSE lvl,
     balance_position |-> pos,
     loudcmp |-> (pos # "L")]

Positions == {"L", "C", "R"}

WellFormed == {Event(z, lvl, pos) : z \in Zones, lvl \in 1..MaxLevel, pos \in Positions}

Drop(m, k) == [m EXCEPT !.present = AllKeys \ {k}]

\* Messages lacking the "event" key or one attribute of the event.
Malformed == {Drop(Event(z, MaxLevel, "R"), k) : z \in Zones, k \in AllKeys}

Messages == WellFormed \cup Malformed

IsWellFormed(m) == m.present = AllKeys

\* The connection is dispatching nothing.
NoMessage == [Event(0, 0, "C") EXCEPT !.present = {}]

\* --------------------------------------------------------- update callbacks
\* What one call of _update_callback leaves behind: the cached value, the
\* number of async_schedule_update_ha_state calls, whether the call raised,
\* whether the debug line was logged.
Applied(v) == [value |-> v, refreshed |-> 1, raised |-> FALSE, logged |-> FALSE]
Returned(v) == [value |-> v, refreshed |-> 0, raised |-> FALSE, logged |-> FALSE]
Dropped(v) == [value |-> v, refreshed |-> 0, raised |-> FALSE, logged |-> TRUE]

\* EQ._update_callback with the zone comparison left out.
EQ_update_callback_unfiltered(e, value, m) ==
    IF "event" \notin m.present THEN Dropped(value)
    ELSE IF "zone" \notin m.present THEN Dropped(value)
    ELSE IF e.kind \notin m.present THEN Dropped(value)
    ELSE LET v == m[e.kind] IN
         IF e.kind # "balance" THEN Applied(v)
         ELSE IF "balance_position" \notin m.present THEN Dropped(v)
         ELSE IF m.balance_position = "L" THEN Applied(0 - v)
         ELSE Applied(v)

\* EQ._update_callback taking the balance magnitude without the position.
EQ_update_callback_unsigned(e, value, m) ==
    IF "event" \notin m.present THEN Dropped(value)
    ELSE IF "zone" \notin m.present THEN Dropped(value)
    ELSE IF m.zone # e.zone THEN Returned(value)
    ELSE IF e.kind \notin m.present THEN Dropped(value)
    ELSE IF e.kind = "balance" /\ "balance_position" \notin m.present THEN Dropped(m[e.kind])
    ELSE Applied(m[e.kind])

\* EQ._update_callback: Bass, Treble and Balance share it (self._eq_name).
EQ_update_callback(e, value, m) ==
    IF "event" \notin m.present THEN Dropped(value)            \* KeyError
    ELSE IF "zone" \notin m.present THEN Dropped(value)        \* AttributeError
    ELSE IF m.zone # e.zone THEN Returned(value)               \* return inside try
    ELSE IF e.kind \notin m.present THEN Dropped(value)        \* getattr fails
    ELSE LET v == m[e.kind] IN                                 \* self._eq_value = float(...)
         IF e.kind # "balance" THEN Applied(v)
         ELSE IF "balance_position" \notin m.present THEN Dropped(v)
         ELSE IF m.balance_position = "L" THEN Applied(0 - v)
         ELSE Applied(v)

\* LoudnessCompensation._update_callback
LoudnessCompensation_update_callback(e, value, m) ==
    IF "event" \notin m.present THEN Dropped(value)
    ELSE IF "zone" \notin m.present THEN Dropped(value)
    ELSE IF m.zone # e.zone THEN Returned(value)
    ELSE IF "loudcmp" \notin m.present THEN Dropped(value)
    ELSE Applied(m.loudcmp)

\* The callback the connection holds for entity e (a bound method of e).
update_callback(e, value, m) ==
    IF e.kind = "loudcmp" THEN LoudnessCompensation_update_callback(e, value, m)
    ELSE EQ_update_callback(e, value, m)

\* ------------------------------------------------------- device connection
\* The connection as the entities use it: the subscriber set of
\* "ZoneEQStatus" and the queries it was asked to send.
add_subscriber(c, e) == [c EXCEPT !.subs = @ \cup {e}]
remove_subscriber(c, e) == [c EXCEPT !.subs = @ \ {e}]
zone_eq_status(c, e, z) ==
    [c EXCEPT !.queries = @ \cup {[zone |-> z, by |-> e, registered |-> e \in c.subs]}]

ConnCall(c, call) ==
    CASE call.op = "add_subscriber" -> add_subscriber(c, call.ent)
      [] call.op = "remove_subscriber" -> remove_subscriber(c, call.ent)
      [] call.op = "zone_eq_status" -> zone_eq_status(c, call.ent, call.zone)

RECURSIVE ConnCalls(_, _)
ConnCalls(c, calls) ==
    IF calls = <<>> THEN c ELSE ConnCalls(ConnCall(c, Head(calls)), Tail(calls))

\* async_added_to_hass asking for the zone's EQ before it subscribes.
async_added_to_hass_query_first(e) ==
    << [op |-> "zone_eq_status", ent |-> e, zone |-> e.zone],
       [op |-> "add_subscriber", ent |-> e, zone |-> e.zone] >>

\* async_added_to_hass: the calls it makes on the connection, in order.
async_added_to_hass(e) ==
    << [op |-> "add_subscriber", ent |-> e, zone |-> e.zone],
       [op |-> "zone_eq_status", ent |-> e, zone |-> e.zone] >>

\* async_will_remove_from_hass leaving the callback registered.
async_will_remove_from_hass_keeps(e) == <<>>

\* async_will_remove_from_hass: its calls on the connection; it then sets
\* self._nuvo = None.
async_will_remove_from_hass(e) ==
    << [op |-> "remove_subscriber", ent |-> e, zone |-> e.zone] >>

\* ---------------------------------------------------------------- commands
\* Host values are floats; the model carries them in halves (h stands for
\* h / 2), so that int() is a real truncation.  The samples are 0, 0.5 and 5
\* with their negatives.
HostValues == {0 - 10, 0 - 1, 0, 1, 10}

\* int(h / 2): truncation toward zero
IntOf(h) == IF h >= 0 THEN h \div 2 ELSE 0 - ((0 - h) \div 2)

Cmd(name, z, pos, v) == [op |-> name, zone |-> z, position |-> pos, value |-> v]

\* A handler that catches what the connection raises.
Handled_swallowing(calls, value, fails) ==
    [calls |-> calls, value |-> value, raised |-> FALSE, refreshed |-> 0, failed |-> fails]

\* A handler awaits its connection calls with no try / except around them:
\* calls are the calls made, value the cached value afterwards, failed says
\* the connection raised, raised that the handler did.
Handled(calls, value, fails) ==
    [calls |-> calls, value |-> value, raised |-> fails, refreshed |-> 0, failed |-> fails]

\* Bass.async_set_value storing the commanded value at once.
Bass_async_set_value_optimistic(e, value, h, fails) ==
    [calls |-> << Cmd("set_bass", e.zone, "", IntOf(h)) >>, value |-> IntOf(h),
     raised |-> fails, refreshed |-> 0, failed |-> fails]

Bass_async_set_value(e, value, h, fails) ==
    Handled(<< Cmd("set_bass", e.zone, "", IntOf(h)) >>, value, fails)

Treble_async_set_value(e, value, h, fails) ==
    Handled(<< Cmd("set_treble", e.zone, "", IntOf(h)) >>, value, fails)

\* Balance.async_set_value deciding the position after taking the magnitude.
Balance_async_set_value_unsigned(e, value, h, fails) ==
    LET magnitude == IF h < 0 THEN 0 - h ELSE h
        balance_position == IF magnitude > 0 THEN "R" ELSE "C"
    IN [calls |-> << Cmd("set_balance", e.zone, balance_position, IntOf(magnitude)) >>,
        value |-> value, raised |-> fails, refreshed |-> 0, failed |-> fails]

Balance_async_set_value(e, value, h, fails) ==
    LET balance_position == IF h < 0 THEN "L" ELSE IF h > 0 THEN "R" ELSE "C"
        magnitude == IF h < 0 THEN 0 - h ELSE h
    IN Handled(<< Cmd("set_balance", e.zone, balance_position, IntOf(magnitude)) >>,
               value, fails)

async_set_value(e, value, h, fails) ==
    CASE e.kind = "bass" -> Bass_async_set_value(e, value, h, fails)
      [] e.kind = "treble" -> Treble_async_set_value(e, value, h, fails)
      [] e.kind = "balance" -> Balance_async_set_value(e, value, h, fails)

SwitchOps == {"turn_on", "turn_off", "toggle"}

async_turn_on(e, value, fails) ==
    Handled(<< Cmd("set_loudness_comp", e.zone, "", TRUE) >>, value, fails)

async_turn_off(e, value, fails) ==
    Handled(<< Cmd("set_loudness_comp", e.zone, "", FALSE) >>, value, fails)

async_toggle(e, value, fails) ==
    Handled(<< Cmd("set_loudness_comp", e.zone, "", ~value) >>, value, fails)

async_switch(e, value, how, fails) ==
    CASE how = "turn_on" -> async_turn_on(e, value, fails)
      [] how = "turn_off" -> async_turn_off(e, value, fails)
      [] how = "toggle" -> async_toggle(e, value, fails)

\* ------------------------------------------------------------- unit converter
\* media_player.py converts between the amplifier's native scales and the
\* host's 0..1 scale.  Host values are fractions q.n / q.d with q.d > 0; the
\* arithmetic on them is exact.
Q(n, d) == [n |-> n, d |-> d]
QEq(a, b) == a.n * b.d = b.n * a.d
QLe(a, b) == a.n * b.d <= b.n * a.d
QLt(a, b) == a.n * b.d < b.n * a.d
QSub(a, b) == Q(a.n * b.d - b.n * a.d, a.d * b.d)
QAbs(a) == IF a.n < 0 THEN Q(0 - a.n, a.d) ELSE a

\* Decimal(p / q).to_integral_exact(rounding=ROUND_HALF_EVEN), q > 0
RoundHalfEven(p, q) ==
    LET f == p \div q
        r == p - f * q
    IN IF 2 * r < q THEN f
       ELSE IF 2 * r > q THEN f + 1
       ELSE IF f % 2 = 0 THEN f ELSE f + 1

\* LEVELS["Grand_Concerto"]
LEVELS ==
    [Grand_Concerto |->
        [volume |-> [max |-> 0, min |-> 79, step |-> 1],
         bass |-> [max |-> 18, min |-> 0 - 18, step |-> 2],
         treble |-> [max |-> 18, min |-> 0 - 18, step |-> 2]]]

\* A scale table whose volume floor is 0 and whose EQ scales have no width.
ZeroWidth ==
    [volume |-> [max |-> 0, min |-> 0, step |-> 1],
     bass |-> [max |-> 0, min |-> 0, step |-> 2],
     treble |-> [max |-> 0, min |-> 0, step |-> 2]]

ScaleTables == {LEVELS.Grand_Concerto, ZeroWidth}

\* What a conversion call leaves: the value returned, or the exception.
Converted(v) == [err |-> "none", val |-> v]
Raises(kind) == [err |-> kind, val |-> 0]

\* nuvo_to_hass_vol returning the native fraction itself.
nuvo_to_hass_vol_uninverted(levels, volume) == Converted(Q(volume, 79))

\* nuvo_to_hass_vol over a scale of 80 steps.
nuvo_to_hass_vol_of_80(levels, volume) == Converted(Q(80 - volume, 80))

\* nuvo_to_hass_vol: 1 - (volume / 79); the scale table is not consulted.
nuvo_to_hass_vol(levels, volume) == Converted(Q(79 - volume, 79))

\* hass_to_nuvo_vol truncating instead of rounding.
hass_to_nuvo_vol_truncating(levels, volume) ==
    Converted((79 * volume.d - 79 * volume.n) \div volume.d)

\* hass_to_nuvo_vol: int(Decimal(79 - (volume * 79)).to_integral_exact(ROUND_HALF_EVEN))
hass_to_nuvo_vol(levels, volume) ==
    Converted(RoundHalfEven(79 * volume.d - 79 * volume.n, volume.d))

\* nuvo_to_hass_eq dividing by the scale's max alone.
nuvo_to_hass_eq_by_max(levels, eq_type, eq_value) ==
    LET nuvo_max == levels[eq_type].max
        nuvo_min == levels[eq_type].min
    IN IF nuvo_max = 0 THEN Raises("ZeroDivisionError")
       ELSE Converted(Q(eq_value - nuvo_min, nuvo_max))

\* nuvo_to_hass_eq: (eq_value - nuvo_min) / (nuvo_max - nuvo_min)
nuvo_to_hass_eq(levels, eq_type, eq_value) ==
    LET nuvo_max == levels[eq_type].max
        nuvo_min == levels[eq_type].min
    IN IF nuvo_max - nuvo_min = 0 THEN Raises("ZeroDivisionError")
       ELSE Converted(Q(eq_value - nuvo_min, nuvo_max - nuvo_min))

\* hass_to_nuvo_eq returning the rounded step count, not multiplied.
hass_to_nuvo_eq_unscaled(levels, eq_type, eq_value) ==
    LET s == levels[eq_type]
    IN IF s.step = 0 THEN Raises("ZeroDivisionError")
       ELSE Converted(RoundHalfEven(eq_value.n * (s.max - s.min) + s.min * eq_value.d,
                                    eq_value.d * s.step))

\* hass_to_nuvo_eq rounding halves upward.
hass_to_nuvo_eq_half_up(levels, eq_type, eq_value) ==
    LET s == levels[eq_type]
    IN IF s.step = 0 THEN Raises("ZeroDivisionError")
       ELSE Converted(((2 * (eq_value.n * (s.max - s.min) + s.min * eq_value.d)
                           + eq_value.d * s.step) \div (2 * eq_value.d * s.step)) * 2)

\* hass_to_nuvo_eq: nuvo_max = max / step, nuvo_min = min / step,
\* int(Decimal(eq_value * (nuvo_max - nuvo_min) + nuvo_min)
\*         .to_integral_exact(ROUND_HALF_EVEN)) * 2
hass_to_nuvo_eq(levels, eq_type, eq_value) ==
    LET s == levels[eq_type]
    IN IF s.step = 0 THEN Raises("ZeroDivisionError")
       ELSE Converted(RoundHalfEven(eq_value.n * (s.max - s.min) + s.min * eq_value.d,
                                    eq_value.d * s.step) * 2)

\* NuvoZone.set_bass(bass, native_scale): the call made on the connection.
set_bass(levels, zone, bass, native_scale) ==
    IF native_scale THEN << Cmd("set_bass", zone, "", bass) >>
    ELSE << Cmd("set_bass", zone, "", hass_to_nuvo_eq(levels, "bass", bass).val) >>

\* ranges[model]["balance"] of the nuvo_serial library
ranges == [balance |-> [max |-> 18, min |-> 0, step |-> 2]]

\* ------------------------------------------------------------ media player
\* NuvoZone (media_player.py): one polled entity per zone.  A cached field is
\* None until update fills it.
Some(v) == [some |-> TRUE, val |-> v]
NoVolume == [some |-> FALSE, val |-> Q(0, 1)]
NoFlag == [some |-> FALSE, val |-> FALSE]
NoSource == [some |-> FALSE, val |-> 0]
NoLevel == [some |-> FALSE, val |-> 0]

\* async_setup_entry: volume_step = 1
volume_step == 1

\* The sources of the config entry, sources[2] of NuvoZone.__init__.
SourceIds == {1, 2}

\* NuvoZone.__init__
NewZone ==
    [state |-> "none", volume |-> NoVolume, mute |-> NoFlag, source |-> NoSource,
     source_names |-> SourceIds,
     bass |-> NoVolume, bass_native |-> NoLevel, treble |-> NoVolume,
     treble_native |-> NoLevel, loudness_compensation |-> NoFlag]

\* What the amplifier holds for the zone: power, mute, native volume, and a
\* setting s that fixes the selected source (s), the permitted sources
\* (1..s), bass (2s), treble (-2s) and loudness compensation (s = 2).
Settings == {1, 2}
Amp(power, mute, volume, s) == [power |-> power, mute |-> mute, volume |-> volume, setting |-> s]

\* The replies update may find missing: zone_status, zone_configuration,
\* zone_eq_status; "none" when all arrive.
Failures == {"none", "status", "config", "eq"}

Updated(z, ret) == [zone |-> z, ret |-> ret]

\* NuvoZone.update writing the volume of a muted zone too.
update_muted_too(zone, amp, fail) ==
    IF fail = "status" THEN Updated(zone, FALSE)
    ELSE IF ~amp.power THEN Updated([zone EXCEPT !.state = "off"], TRUE)
    ELSE Updated([zone EXCEPT !.state = "on", !.mute = Some(amp.mute),
                              !.volume = Some(nuvo_to_hass_vol(LEVELS.Grand_Concerto, amp.volume).val),
                              !.source = Some(amp.setting)],
                 fail = "none")

\* NuvoZone.update
update(zone, amp, fail) ==
    IF fail = "status" THEN Updated(zone, FALSE)                 \* not state
    ELSE IF ~amp.power THEN Updated([zone EXCEPT !.state = "off"], TRUE)
    ELSE
      LET z1 == [zone EXCEPT
                   !.state = "on",
                   !.mute = Some(amp.mute),
                   !.volume = IF ~amp.mute
                              THEN Some(nuvo_to_hass_vol(LEVELS.Grand_Concerto, amp.volume).val)
                              ELSE @,
                   !.source = Some(amp.setting)]
          z2 == [z1 EXCEPT !.source_names = 1..amp.setting]
          z3 == [z2 EXCEPT
                   !.bass = Some(nuvo_to_hass_eq(LEVELS.Grand_Concerto, "bass", 2 * amp.setting).val),
                   !.bass_native = Some(2 * amp.setting),
                   !.treble = Some(nuvo_to_hass_eq(LEVELS.Grand_Concerto, "treble",
                                                   0 - 2 * amp.setting).val),
                   !.treble_native = Some(0 - 2 * amp.setting),
                   !.loudness_compensation = Some(amp.setting = 2)]
      IN IF fail = "config" THEN Updated(z1, FALSE)              \* not z_cfg
         ELSE IF fail = "eq" THEN Updated(z2, FALSE)             \* not eq
         ELSE Updated(z3, TRUE)

Max(a, b) == IF a >= b THEN a ELSE b
Min(a, b) == IF a <= b THEN a ELSE b

\* volume_up without the floor at 0.
volume_up_unclamped(zone) ==
    IF ~zone.volume.some THEN <<>>
    ELSE << Cmd("set_volume", 1, "",
                hass_to_nuvo_vol(LEVELS.Grand_Concerto, zone.volume.val).val - volume_step) >>

\* NuvoZone.volume_up: the calls made on the connection (zone 1).
volume_up(zone) ==
    IF ~zone.volume.some THEN <<>>
    ELSE << Cmd("set_volume", 1, "",
                Max(hass_to_nuvo_vol(LEVELS.Grand_Concerto, zone.volume.val).val - volume_step, 0)) >>

\* NuvoZone.volume_down
volume_down(zone) ==
    IF ~zone.volume.some THEN <<>>
    ELSE << Cmd("set_volume", 1, "",
                Min(hass_to_nuvo_vol(LEVELS.Grand_Concerto, zone.volume.val).val + volume_step, 79)) >>

\* NuvoZone.set_volume_level
set_volume_level(zone, volume) ==
    << Cmd("set_volume", 1, "", hass_to_nuvo_vol(LEVELS.Grand_Concerto, volume).val) >>

\* ------------------------------------------------- config flow and entry
\* Serial ports the user may type into the forms.
Ports == {"ttyUSB0", "ttyUSB1"}

\* What get_nuvo_async does in the flow's first step: it returns a
\* connection, raises SerialException, or raises something else.
Outcomes == {"ok", "serial", "other"}

\* NuvoConfigFlow: the form on display (step), self._nuvo ("unset" while the
\* attribute does not exist), self._data, and of the latest call: the step
\* functions entered, the error put into errors, the errors the form on
\* display shows, the exception that left the call, the connection outcome.
NewFlow ==
    [step |-> "none", nuvo |-> "unset", port |-> "", keys |-> {},
     entered |-> <<>>, errors |-> "", shown |-> "", raised |-> "", outcome |-> "ok",
     created |-> FALSE]

Entered(f, name) == [f EXCEPT !.entered = Append(@, name)]

\* NuvoConfigFlow._create_entry
NuvoConfigFlow_create_entry(f) == [f EXCEPT !.nuvo = "none", !.step = "done", !.created = TRUE]

\* NuvoConfigFlow.async_step_zones; replies says the amplifier answers.
NuvoConfigFlow_async_step_zones(f0, submitted, replies) ==
    LET f == Entered(f0, "zones")
    IN IF submitted THEN NuvoConfigFlow_create_entry([f EXCEPT !.keys = @ \cup {"zones"}])
       ELSE IF f.nuvo = "unset" THEN [f EXCEPT !.raised = "AttributeError"]
       ELSE IF ~replies THEN [f EXCEPT !.raised = "CannotConnect"]
       ELSE [f EXCEPT !.step = "zones", !.shown = ""]

\* NuvoConfigFlow.async_step_sources
NuvoConfigFlow_async_step_sources(f0, submitted, replies) ==
    LET f == Entered(f0, "sources")
    IN IF submitted
       THEN NuvoConfigFlow_async_step_zones([f EXCEPT !.keys = @ \cup {"sources"}], FALSE, replies)
       ELSE IF f.nuvo = "unset" THEN [f EXCEPT !.raised = "AttributeError"]
       ELSE IF ~replies THEN [f EXCEPT !.raised = "CannotConnect"]
       ELSE [f EXCEPT !.step = "sources", !.shown = ""]

\* NuvoConfigFlow.async_step_init (async_step_user calls it)
NuvoConfigFlow_async_step_init(f0, submitted, port, outcome, replies) ==
    LET f == [Entered(f0, "init") EXCEPT !.keys = {}, !.errors = "", !.outcome = outcome]
    IN IF ~submitted THEN [f EXCEPT !.step = "user", !.shown = ""]
       ELSE LET f1 == CASE outcome = "ok" -> [f EXCEPT !.nuvo = "conn"]
                        [] outcome = "serial" -> [f EXCEPT !.errors = "cannot_connect"]
                        [] outcome = "other" -> [f EXCEPT !.errors = "unknown"]
            IN NuvoConfigFlow_async_step_sources([f1 EXCEPT !.port = port, !.keys = {"port", "type"}],
                                 FALSE, replies)

\* The config entry and what hass keeps for it.  data_port, not_first_run:
\* entry.data; options_port: entry.options ("" when absent); registered,
\* nuvo, first_run, listener: hass.data[DOMAIN][entry_id] and its fields;
\* connected: the connection opened by the latest setup is open; port: the
\* port it was opened on; hstate: the host's state of the entry.
NoEntry ==
    [exists |-> FALSE, hstate |-> "not_loaded", data_port |-> "", options_port |-> "",
     not_first_run |-> FALSE, registered |-> FALSE, nuvo |-> "none", first_run |-> FALSE,
     listener |-> FALSE, connected |-> FALSE, port |-> "", raised |-> ""]

\* async_setup_entry storing no not_first_run marker.
async_setup_entry_unmarked(e, connects) ==
    IF ~connects THEN [e EXCEPT !.raised = "ConfigEntryNotReady"]
    ELSE [e EXCEPT !.raised = "", !.listener = TRUE, !.registered = TRUE, !.nuvo = "conn",
                   !.first_run = ~e.not_first_run, !.connected = TRUE,
                   !.port = IF e.options_port # "" THEN e.options_port ELSE e.data_port]

\* async_setup_entry of __init__.py; connects says get_nuvo_async succeeds.
async_setup_entry(e, connects) ==
    IF ~connects THEN [e EXCEPT !.raised = "ConfigEntryNotReady"]
    ELSE LET first_run == ~e.not_first_run
         IN [e EXCEPT !.raised = "",
                      !.not_first_run = IF first_run THEN TRUE ELSE @,
                      !.listener = TRUE,
                      !.registered = TRUE, !.nuvo = "conn", !.first_run = first_run,
                      !.connected = TRUE,
                      !.port = IF e.options_port # "" THEN e.options_port ELSE e.data_port]

\* async_unload_entry; unload_ok says every platform unloaded.
async_unload_entry(e, unload_ok) ==
    LET e1 == [e EXCEPT !.connected = FALSE, !.raised = ""]      \* disconnect()
    IN IF unload_ok
       THEN [e1 EXCEPT !.nuvo = "none", !.listener = FALSE, !.registered = FALSE,
                       !.first_run = FALSE]
       ELSE e1

\* ------------------------------------------------------------------- state
VARIABLES
    lifecycle,    \* host's view of each entity: "new", "attached", "removed"
    nuvo,         \* self._nuvo: "conn", or "none" once released
    cached,       \* self._eq_value / self._loudness_compensation
    subscribers,  \* callbacks registered with the connection for "ZoneEQStatus"
    queries,      \* zone_eq_status queries the connection was asked to send
    cmdq,         \* commands the connection accepted, not yet echoed by the device
    cur,          \* the message the connection is dispatching
    pending,      \* callbacks scheduled for cur and not yet run
    carried,      \* value of the last own-zone message with e's fields delivered to e
    last,         \* the handler call made by the latest step, NoCall after a device step
    conv,         \* the latest call of a converter of media_player.py and its result
    zone,         \* the cached fields of the NuvoZone entity of zone 1
    amp,          \* what the amplifier holds for zone 1
    zlast,        \* the NuvoZone method called by the latest step
    flow,         \* the config flow (NuvoConfigFlow)
    entry,        \* the config entry and what hass keeps for it
    setups,       \* successful setups of the entry, and those that stored FIRST_RUN = True
    elast         \* what the latest step did to the flow or the entry

vars == <<lifecycle, nuvo, cached, subscribers, queries, cmdq, cur, pending, carried, last, conv,
          zone, amp, zlast, flow, entry, setups, elast>>

zoneVars == <<zone, amp, zlast>>

entryVars == <<flow, entry, setups, elast>>

NoZoneCall == [op |-> "none", sent |-> <<>>]

AnEntity == [kind |-> "bass", zone |-> 1]

NoCall ==
    [op |-> "none", ent |-> AnEntity, arg |-> 0, msg |-> NoMessage, before |-> 0,
     sent |-> <<>>, failed |-> FALSE, raised |-> FALSE, refreshed |-> 0, logged |-> FALSE]

Call(name, e, a, m, b, r) ==
    [op |-> name, ent |-> e, arg |-> a, msg |-> m, before |-> b,
     sent |-> r.calls, failed |-> r.failed, raised |-> r.raised,
     refreshed |-> r.refreshed, logged |-> FALSE]

\* Message m lacks the event key or a field that entity e reads.
Lacks(e, m) ==
    \/ "event" \notin m.present
    \/ "zone" \notin m.present
    \/ e.kind \notin m.present
    \/ (e.kind = "balance" /\ "balance_position" \notin m.present)

\* The value a message with every field entity e reads carries for e.
Carried(e, m) ==
    IF e.kind = "balance"
    THEN (IF m.balance_position = "L" THEN 0 - m.balance ELSE m.balance)
    ELSE m[e.kind]

\* A converter call: the scale table in force, the control, the native or
\* host argument, the result, the result of converting the result back, the
\* number of round trips made and the connection calls issued.
Conv(name, levels, ctl, n, h, out, back, k, calls) ==
    [op |-> name, levels |-> levels, ctl |-> ctl, native |-> n, host |-> h,
     out |-> out, back |-> back, trips |-> k, sent |-> calls]

NoConv ==
    Conv("none", LEVELS.Grand_Concerto, "volume", 0, Q(0, 1), Converted(0), Converted(0), 0, <<>>)

Init ==
    /\ lifecycle = [e \in Entities |-> "new"]
    /\ nuvo = [e \in Entities |-> "conn"]
    /\ cached = [e \in Entities |-> InitialValue(e)]
    /\ subscribers = {}
    /\ queries = {}
    /\ cmdq = <<>>
    /\ cur = NoMessage
    /\ pending = {}
    /\ carried = [e \in Entities |-> InitialValue(e)]
    /\ last = NoCall
    /\ conv = NoConv
    /\ zone = NewZone
    /\ amp = Amp(FALSE, FALSE, 40, 1)
    /\ zlast = NoZoneCall
    /\ flow = NewFlow
    /\ entry = NoEntry
    /\ setups = [done |-> 0, first_runs |-> 0]
    /\ elast = "none"

\* The host adds entity e: async_added_to_hass runs.
Attach(e) ==
    /\ lifecycle[e] = "new"
    /\ Cardinality({x \in Entities : lifecycle[x] # "new"}) < MaxAdded
    /\ LET calls == async_added_to_hass(e)
           c == ConnCalls([subs |-> subscribers, queries |-> queries], calls)
       IN /\ subscribers' = c.subs
          /\ queries' = c.queries
          /\ last' = Call("attach", e, 0, NoMessage, cached[e], Handled(calls, cached[e], FALSE))
    /\ lifecycle' = [lifecycle EXCEPT ![e] = "attached"]
    /\ UNCHANGED <<nuvo, cached, cmdq, cur, pending, carried, conv, zoneVars, entryVars>>

\* The host removes entity e: async_will_remove_from_hass runs.
Detach(e) ==
    /\ lifecycle[e] = "attached"
    /\ LET calls == async_will_remove_from_hass(e)
           c == ConnCalls([subs |-> subscribers, queries |-> queries], calls)
       IN /\ subscribers' = c.subs
          /\ queries' = c.queries
          /\ last' = Call("detach", e, 0, NoMessage, cached[e], Handled(calls, cached[e], FALSE))
    /\ nuvo' = [nuvo EXCEPT ![e] = "none"]
    /\ lifecycle' = [lifecycle EXCEPT ![e] = "removed"]
    /\ UNCHANGED <<cached, cmdq, cur, pending, carried, conv, zoneVars, entryVars>>

\* The connection takes message m off the stream and schedules the callback
\* of every subscriber; with no subscriber the message is discarded.
Dispatch(m) ==
    /\ pending = {}
    /\ subscribers # {}
    /\ cur' = m
    /\ pending' = subscribers

\* The amplifier pushes a message: a change made at a keypad, the reply to a
\* zone_eq_status query, or a frame that arrived damaged.
Push(m) ==
    /\ Dispatch(m)
    /\ last' = NoCall
    /\ UNCHANGED <<lifecycle, nuvo, cached, subscribers, queries, cmdq, carried, conv, zoneVars, entryVars>>

\* The message the amplifier sends after carrying out command c: base with
\* the commanded control changed.
EchoOf(c, base) ==
    CASE c.op = "set_bass" -> [base EXCEPT !.bass = c.value]
      [] c.op = "set_treble" -> [base EXCEPT !.treble = c.value]
      [] c.op = "set_balance" ->
            [base EXCEPT !.balance = c.value, !.balance_position = c.position]
      [] c.op = "set_loudness_comp" -> [base EXCEPT !.loudcmp = c.value]

\* The amplifier carries out the oldest command and reports the zone's EQ
\* (the controls not commanded are reported flat and centred).
Echo ==
    /\ cmdq # <<>>
    /\ cmdq' = Tail(cmdq)
    /\ \/ Dispatch(EchoOf(Head(cmdq), Event(Head(cmdq).zone, MaxLevel, "C")))
       \/ subscribers = {} /\ pending = {} /\ UNCHANGED <<cur, pending>>
    /\ last' = NoCall
    /\ UNCHANGED <<lifecycle, nuvo, cached, subscribers, queries, carried, conv, zoneVars, entryVars>>

\* The connection runs the scheduled callback of entity e with cur.
Deliver(e) ==
    /\ e \in pending
    /\ LET r == update_callback(e, cached[e], cur)
       IN /\ cached' = [cached EXCEPT ![e] = r.value]
          /\ last' = [op |-> "callback", ent |-> e, arg |-> 0, msg |-> cur,
                      before |-> cached[e], sent |-> <<>>, failed |-> FALSE,
                      raised |-> r.raised,
                      refreshed |-> r.refreshed, logged |-> r.logged]
    /\ carried' = IF ~Lacks(e, cur) /\ cur.zone = e.zone
                  THEN [carried EXCEPT ![e] = Carried(e, cur)]
                  ELSE carried
    /\ pending' = pending \ {e}
    /\ cur' = IF pending' = {} THEN NoMessage ELSE cur
    /\ UNCHANGED <<lifecycle, nuvo, subscribers, queries, cmdq, conv, zoneVars, entryVars>>

\* The connection takes the calls of a command handler: a call that does
\* not raise is queued for the amplifier.
Sent(r) == IF r.raised THEN cmdq ELSE cmdq \o r.calls

\* The host calls async_set_value(h / 2) on a Bass, Treble or Balance entity.
SetValue(e, h, fails) ==
    /\ lifecycle[e] = "attached"
    /\ e.kind \in EQKinds
    /\ fails \/ Len(cmdq) < MaxQueue
    /\ LET r == async_set_value(e, cached[e], h, fails)
       IN /\ cached' = [cached EXCEPT ![e] = r.value]
          /\ cmdq' = Sent(r)
          /\ last' = Call("set_value", e, h, NoMessage, cached[e], r)
    /\ UNCHANGED <<lifecycle, nuvo, subscribers, queries, cur, pending, carried, conv, zoneVars, entryVars>>

\* The host calls async_turn_on / async_turn_off / async_toggle on a switch.
Switch(e, how, fails) ==
    /\ lifecycle[e] = "attached"
    /\ e.kind = "loudcmp"
    /\ fails \/ Len(cmdq) < MaxQueue
    /\ LET r == async_switch(e, cached[e], how, fails)
       IN /\ cached' = [cached EXCEPT ![e] = r.value]
          /\ cmdq' = Sent(r)
          /\ last' = Call(how, e, 0, NoMessage, cached[e], r)
    /\ UNCHANGED <<lifecycle, nuvo, subscribers, queries, cur, pending, carried, conv, zoneVars, entryVars>>

\* Subscription and dispatch: the host adds and removes entities while the
\* amplifier pushes messages.
Next ==
    \/ \E e \in Entities : Attach(e)
    \/ \E e \in Entities : Detach(e)
    \/ \E m \in Messages : Push(m)
    \/ \E e \in Entities : Deliver(e)

Spec == Init /\ [][Next]_vars

\* Command path: the host issues commands to the entities it added, the
\* amplifier echoes them.
NextCmd ==
    \/ \E e \in Entities : Attach(e)
    \/ \E e \in Entities, h \in HostValues, fails \in BOOLEAN : SetValue(e, h, fails)
    \/ \E e \in Entities, how \in SwitchOps, fails \in BOOLEAN : Switch(e, how, fails)
    \/ Echo
    \/ \E e \in Entities : Deliver(e)

SpecCmd == Init /\ [][NextCmd]_vars

\* ------------------------------------------------------ converter in isolation
\* The arguments the converters are called with.
NativeVolumes == 0..79
\* host volumes k / 158: every step boundary and every midpoint between two
\* steps; and the value 0.4937
HostVolumes == {Q(k, 158) : k \in 0..158} \cup {Q(4937, 10000)}
EqTypes == {"bass", "treble"}
NativeEqs == (0 - 18)..18
\* host EQ values k / 36: every device step and every midpoint; 27 / 36 = 0.75
HostEqs == {Q(k, 36) : k \in 0..36}
\* host balance values in halves, as the set-value commands carry them:
\* -20.0 .. 20.0
BalanceHosts == (0 - 40)..40
TheBalance == [kind |-> "balance", zone |-> 1]

dispatchVars ==
    <<lifecycle, nuvo, cached, subscribers, queries, cmdq, cur, pending, carried, last>>

\* k times host -> device -> host
RECURSIVE VolumeTrips(_, _, _)
VolumeTrips(levels, v, k) ==
    IF k = 0 THEN v
    ELSE VolumeTrips(levels,
                     nuvo_to_hass_vol(levels, hass_to_nuvo_vol(levels, v).val).val,
                     k - 1)

\* nuvo_to_hass_vol(n), and the result converted back
VolumeToHost(levels, n) ==
    /\ LET out == nuvo_to_hass_vol(levels, n)
       IN conv' = Conv("nuvo_to_hass_vol", levels, "volume", n, Q(0, 1), out,
                       hass_to_nuvo_vol(levels, out.val), 0, <<>>)
    /\ UNCHANGED <<dispatchVars, zoneVars, entryVars>>

\* hass_to_nuvo_vol(h), and the result converted back
VolumeToDevice(levels, h) ==
    /\ LET out == hass_to_nuvo_vol(levels, h)
       IN conv' = Conv("hass_to_nuvo_vol", levels, "volume", 0, h, out,
                       nuvo_to_hass_vol(levels, out.val), 0, <<>>)
    /\ UNCHANGED <<dispatchVars, zoneVars, entryVars>>

\* The host volume of native step n taken k times to the device and back.
VolumeRoundTrips(n, k) ==
    /\ LET levels == LEVELS.Grand_Concerto
           v == nuvo_to_hass_vol(levels, n).val
       IN conv' = Conv("volume_trips", levels, "volume", n, v,
                       Converted(VolumeTrips(levels, v, k)),
                       hass_to_nuvo_vol(levels, VolumeTrips(levels, v, k)), k, <<>>)
    /\ UNCHANGED <<dispatchVars, zoneVars, entryVars>>

\* nuvo_to_hass_eq(eq_type, n), and the result converted back
EqToHost(levels, eq_type, n) ==
    /\ LET out == nuvo_to_hass_eq(levels, eq_type, n)
       IN conv' = Conv("nuvo_to_hass_eq", levels, eq_type, n, Q(0, 1), out,
                       IF out.err = "none" THEN hass_to_nuvo_eq(levels, eq_type, out.val)
                       ELSE out,
                       0, <<>>)
    /\ UNCHANGED <<dispatchVars, zoneVars, entryVars>>

\* hass_to_nuvo_eq(eq_type, h), and the result converted back
EqToDevice(levels, eq_type, h) ==
    /\ LET out == hass_to_nuvo_eq(levels, eq_type, h)
       IN conv' = Conv("hass_to_nuvo_eq", levels, eq_type, 0, h, out,
                       IF out.err = "none" THEN nuvo_to_hass_eq(levels, eq_type, out.val)
                       ELSE out,
                       0, <<>>)
    /\ UNCHANGED <<dispatchVars, zoneVars, entryVars>>

\* NuvoZone.set_bass(bass, native_scale) of zone 1
SetBass(bass, native_scale) ==
    /\ conv' = Conv("set_bass", LEVELS.Grand_Concerto, "bass",
                    IF native_scale THEN bass ELSE 0,
                    IF native_scale THEN Q(0, 1) ELSE bass,
                    Converted(0), Converted(native_scale), 0,
                    set_bass(LEVELS.Grand_Concerto, 1, bass, native_scale))
    /\ UNCHANGED <<dispatchVars, zoneVars, entryVars>>

\* Balance.async_set_value(h / 2) on its own: the call it issues.
BalanceSet(h) ==
    /\ conv' = Conv("set_balance", LEVELS.Grand_Concerto, "balance", h, Q(h, 2),
                    Converted(0), Converted(0), 0,
                    Balance_async_set_value(TheBalance, 0, h, FALSE).calls)
    /\ UNCHANGED <<dispatchVars, zoneVars, entryVars>>

\* Balance callback on its own: a ZoneEQStatus of the entity's zone reporting
\* magnitude m at position pos (centre is reported with magnitude 0), handed
\* to an entity whose cached value is before.
BalanceUpdate(m, pos, before) ==
    /\ LET msg == [Event(TheBalance.zone, m, pos) EXCEPT !.bass = 0, !.treble = 0]
       IN conv' = Conv("balance_update", LEVELS.Grand_Concerto, "balance", m, Q(before, 1),
                       Converted(EQ_update_callback(TheBalance, before, msg).value),
                       Converted(0), 0, << Cmd("status", msg.zone, pos, msg.balance) >>)
    /\ UNCHANGED <<dispatchVars, zoneVars, entryVars>>

\* Balance.async_set_value(h / 2), then the amplifier's echo of the command
\* delivered to the entity's callback.
BalanceEcho(h, before) ==
    /\ LET calls == Balance_async_set_value(TheBalance, before, h, FALSE).calls
           msg == EchoOf(calls[1], Event(calls[1].zone, MaxLevel, "C"))
       IN conv' = Conv("balance_echo", LEVELS.Grand_Concerto, "balance", h, Q(h, 2),
                       Converted(EQ_update_callback(TheBalance, before, msg).value),
                       Converted(before), 0, calls)
    /\ UNCHANGED <<dispatchVars, zoneVars, entryVars>>

NextConv ==
    \/ \E levels \in ScaleTables, n \in NativeVolumes : VolumeToHost(levels, n)
    \/ \E levels \in ScaleTables, h \in HostVolumes : VolumeToDevice(levels, h)
    \/ \E n \in NativeVolumes, k \in 1..MaxTrips : VolumeRoundTrips(n, k)
    \/ \E levels \in ScaleTables, t \in EqTypes, n \in NativeEqs : EqToHost(levels, t, n)
    \/ \E levels \in ScaleTables, t \in EqTypes, h \in HostEqs : EqToDevice(levels, t, h)
    \/ \E native_scale \in BOOLEAN :
          \E bass \in (IF native_scale THEN NativeEqs ELSE HostEqs) : SetBass(bass, native_scale)
    \/ \E h \in BalanceHosts : BalanceSet(h)
    \/ \E m \in 0..ranges.balance.max, pos \in Positions, before \in {0, 1} :
          BalanceUpdate(m, pos, before)
    \/ \E h \in BalanceHosts, before \in {0, 1} : BalanceEcho(h, before)

SpecConv == Init /\ [][NextConv]_vars

\* ------------------------------------------------------- media player zone
\* Host volumes handed to set_volume_level.
LevelsSet == {Q(0, 1), Q(1, 1)}

\* The host polls the zone: update runs; fail names the reply that is missing.
ZoneUpdate(fail) ==
    /\ LET r == update(zone, amp, fail)
       IN /\ zone' = r.zone
          /\ zlast' = [op |-> "update", sent |-> <<>>]
    /\ UNCHANGED <<amp, dispatchVars, conv, entryVars>>

\* The amplifier carries out the set_volume calls it is sent.
Obeys(a, calls) == IF calls = <<>> THEN a ELSE [a EXCEPT !.volume = calls[1].value]

VolumeUp ==
    /\ LET calls == volume_up(zone)
       IN /\ amp' = Obeys(amp, calls)
          /\ zlast' = [op |-> "volume_up", sent |-> calls]
    /\ UNCHANGED <<zone, dispatchVars, conv, entryVars>>

VolumeDown ==
    /\ LET calls == volume_down(zone)
       IN /\ amp' = Obeys(amp, calls)
          /\ zlast' = [op |-> "volume_down", sent |-> calls]
    /\ UNCHANGED <<zone, dispatchVars, conv, entryVars>>

SetVolumeLevel(h) ==
    /\ LET calls == set_volume_level(zone, h)
       IN /\ amp' = Obeys(amp, calls)
          /\ zlast' = [op |-> "set_volume_level", sent |-> calls]
    /\ UNCHANGED <<zone, dispatchVars, conv, entryVars>>

\* Somebody uses the keypad of the zone: power, mute, or another setting.
Keys == {"power", "mute", "setting"}

Press(a, key) ==
    CASE key = "power" -> [a EXCEPT !.power = ~a.power]
      [] key = "mute" -> [a EXCEPT !.mute = ~a.mute]
      [] key = "setting" -> [a EXCEPT !.setting = 3 - a.setting]

Keypad(key) ==
    /\ amp' = Press(amp, key)
    /\ zlast' = NoZoneCall
    /\ UNCHANGED <<zone, dispatchVars, conv, entryVars>>

NextZone ==
    \/ \E fail \in Failures : ZoneUpdate(fail)
    \/ VolumeUp
    \/ VolumeDown
    \/ \E h \in LevelsSet : SetVolumeLevel(h)
    \/ \E key \in Keys : Keypad(key)

SpecZone == Init /\ [][NextZone]_vars

\* --------------------------------------------- config flow and entry life
\* The user opens the config flow: async_step_user(None).
FlowOpen ==
    /\ flow.step = "none"
    /\ flow' = NuvoConfigFlow_async_step_init([flow EXCEPT !.entered = <<>>, !.raised = ""],
                                              FALSE, "", "ok", TRUE)
    /\ elast' = "flow_open"
    /\ UNCHANGED <<entry, setups, dispatchVars, conv, zoneVars>>

\* The user submits port and model in the user form.
FlowSubmitUser(port, outcome, replies) ==
    /\ flow.step = "user"
    /\ flow' = NuvoConfigFlow_async_step_init([flow EXCEPT !.entered = <<>>, !.raised = ""],
                                              TRUE, port, outcome, replies)
    /\ elast' = "flow_user"
    /\ UNCHANGED <<entry, setups, dispatchVars, conv, zoneVars>>

\* The user submits the source names.
FlowSubmitSources(replies) ==
    /\ flow.step = "sources"
    /\ flow' = NuvoConfigFlow_async_step_sources([flow EXCEPT !.entered = <<>>, !.raised = ""],
                                                 TRUE, replies)
    /\ elast' = "flow_sources"
    /\ UNCHANGED <<entry, setups, dispatchVars, conv, zoneVars>>

\* The user submits the zone names: the entry is created with the flow's data.
FlowSubmitZones ==
    /\ flow.step = "zones"
    /\ flow' = NuvoConfigFlow_async_step_zones([flow EXCEPT !.entered = <<>>, !.raised = ""],
                                               TRUE, TRUE)
    /\ entry' = [NoEntry EXCEPT !.exists = TRUE, !.data_port = flow.port]
    /\ elast' = "flow_zones"
    /\ UNCHANGED <<setups, dispatchVars, conv, zoneVars>>

\* Successful setups so far and those among them that stored FIRST_RUN = True.
Counted(s, e) ==
    IF e.raised # "" THEN s
    ELSE [done |-> s.done + 1, first_runs |-> s.first_runs + (IF e.first_run THEN 1 ELSE 0)]

\* The host sets the entry up: at start, after a restart, or on a retry.
Setup(connects) ==
    /\ entry.exists
    /\ entry.hstate = "not_loaded"
    /\ setups.done < MaxSetups
    /\ LET e == async_setup_entry(entry, connects)
       IN /\ entry' = [e EXCEPT !.hstate = IF e.raised = "" THEN "loaded" ELSE @]
          /\ setups' = Counted(setups, e)
    /\ elast' = "setup"
    /\ UNCHANGED <<flow, dispatchVars, conv, zoneVars>>

\* The host unloads the entry.
Unload(unload_ok) ==
    /\ entry.hstate = "loaded"
    /\ entry' = [async_unload_entry(entry, unload_ok) EXCEPT
                    !.hstate = IF unload_ok THEN "not_loaded" ELSE "failed_unload"]
    /\ elast' = "unload"
    /\ UNCHANGED <<flow, setups, dispatchVars, conv, zoneVars>>

\* async_reload: unload, and set up again when the unload succeeded.
Reloaded(e, unload_ok, connects) ==
    LET u == async_unload_entry(e, unload_ok)
    IN IF ~unload_ok THEN [u EXCEPT !.hstate = "failed_unload"]
       ELSE LET n == async_setup_entry(u, connects)
            IN [n EXCEPT !.hstate = IF n.raised = "" THEN "loaded" ELSE "not_loaded"]

\* The user saves a port in the options flow; when that changes the entry's
\* options, the update listener (_update_listener) reloads the entry.
Options(port, unload_ok, connects) ==
    /\ entry.exists
    /\ entry.options_port # port
    /\ setups.done < MaxSetups
    /\ LET e == [entry EXCEPT !.options_port = port]
           reloads == entry.listener /\ entry.hstate = "loaded"
           r == IF reloads THEN Reloaded(e, unload_ok, connects) ELSE e
       IN /\ entry' = r
          /\ setups' = IF reloads /\ unload_ok THEN Counted(setups, r) ELSE setups
    /\ elast' = "options"
    /\ UNCHANGED <<flow, dispatchVars, conv, zoneVars>>

\* The host process restarts: hass.data and every connection are gone, the
\* stored entry stays.
Restart ==
    /\ entry.exists
    /\ entry.hstate # "not_loaded"
    /\ entry' = [entry EXCEPT !.hstate = "not_loaded", !.registered = FALSE, !.nuvo = "none",
                              !.first_run = FALSE, !.listener = FALSE, !.connected = FALSE,
                              !.raised = ""]
    /\ elast' = "restart"
    /\ UNCHANGED <<flow, setups, dispatchVars, conv, zoneVars>>

NextEntry ==
    \/ FlowOpen
    \/ \E port \in Ports, outcome \in Outcomes, replies \in BOOLEAN :
          FlowSubmitUser(port, outcome, replies)
    \/ \E replies \in BOOLEAN : FlowSubmitSources(replies)
    \/ FlowSubmitZones
    \/ \E connects \in BOOLEAN : Setup(connects)
    \/ \E unload_ok \in BOOLEAN : Unload(unload_ok)
    \/ \E port \in Ports, unload_ok \in BOOLEAN, connects \in BOOLEAN :
          Options(port, unload_ok, connects)
    \/ Restart

SpecEntry == Init /\ [][NextEntry]_vars

\* ------------------------------------------------------------- properties
HasZone(m) == "event" \in m.present /\ "zone" \in m.present
OwnZone(e, m) == HasZone(m) /\ m.zone = e.zone
OtherZone(e, m) == HasZone(m) /\ m.zone # e.zone
CallbackRan == last.op = "callback"
Unchanged == cached[last.ent] = last.before
CommandOps == {"set_value"} \cup SwitchOps
CommandRan == last.op \in CommandOps

\* A callback run with a message of another zone changed nothing.
OtherZoneIgnored ==
    (CallbackRan /\ OtherZone(last.ent, last.msg)) => (Unchanged /\ last.refreshed = 0)

\* A step changes an entity's cached value only by running the entity's own
\* callback with a message of the entity's own zone.
OnlyOwnZoneChanges ==
    \A e \in Entities : cached'[e] # cached[e] => (e \in pending /\ OwnZone(e, cur))

\* C1: a callback run with a message of another zone leaves the entity's
\* cached value as it was and signals no refresh; and whenever any entity's
\* cached value changes in a step, that step ran the entity's own callback
\* with a message of the entity's own zone, so a message for zone z changes
\* entities of zone z only.
C1_DispatcherFiltering == [](OtherZoneIgnored) /\ [][OnlyOwnZoneChanges]_vars

\* C1 witness: with two callbacks subscribed, an entity holding a value it
\* took from an earlier message was just handed a complete message of the
\* other zone, which an entity of that zone is still to receive.
C1_Witness ==
    /\ CallbackRan
    /\ IsWellFormed(last.msg)
    /\ OtherZone(last.ent, last.msg)
    /\ last.before # InitialValue(last.ent)
    /\ Cardinality(subscribers) >= 2
    /\ \E e \in pending : e.zone = last.msg.zone

\* C2: a callback run with a message that lacks the event key or a field the
\* entity expects does not raise, leaves the cached value unchanged and
\* signals no refresh.
C2_MalformedDropped ==
    (CallbackRan /\ Lacks(last.ent, last.msg))
        => (~last.raised /\ Unchanged /\ last.refreshed = 0)

\* C3: a callback that runs after the entity was detached leaves the cached
\* value unchanged and signals no refresh.
C3_LateDeliveryIgnored ==
    (CallbackRan /\ lifecycle[last.ent] = "removed")
        => (Unchanged /\ last.refreshed = 0)

\* C4: the connection holds an entity's callback exactly while the entity is
\* attached; a detached entity has released its connection reference, and
\* the detach handler's only call removed the callback it had registered.
C4_NoDanglingSubscriptions ==
    /\ \A e \in Entities : e \in subscribers <=> lifecycle[e] = "attached"
    /\ \A e \in Entities : nuvo[e] = "none" <=> lifecycle[e] = "removed"
    /\ last.op = "detach" =>
          last.sent = << [op |-> "remove_subscriber", ent |-> last.ent, zone |-> last.ent.zone] >>

\* C4 witness: an entity was just detached while another stays subscribed.
C4_Witness ==
    /\ last.op = "detach"
    /\ last.ent \notin subscribers
    /\ nuvo[last.ent] = "none"
    /\ \E e \in subscribers : e # last.ent

\* C5: every initial query was sent for the entity's own zone after the
\* entity's callback had been registered, and the callback stays registered
\* while the entity is attached, so the reply finds the subscription in place.
C5_SubscribeBeforeQuery ==
    /\ \A q \in queries : q.registered /\ q.zone = q.by.zone
    /\ \A q \in queries : lifecycle[q.by] = "attached" => q.by \in subscribers
    /\ last.op = "attach" =>
          /\ Len(last.sent) = 2
          /\ last.sent[1].op = "add_subscriber"
          /\ last.sent[2].op = "zone_eq_status"

\* C5 witness: the reply to an entity's initial query is being dispatched and
\* the entity's callback is scheduled for it.
C5_Witness ==
    \E q \in queries :
        /\ q.by \in pending
        /\ q.by \in subscribers
        /\ IsWellFormed(cur)
        /\ cur.zone = q.zone

\* The command a handler call is expected to issue.
OwnCommand(c, e) ==
    /\ c.zone = e.zone
    /\ c.op = (CASE e.kind = "bass" -> "set_bass"
                 [] e.kind = "treble" -> "set_treble"
                 [] e.kind = "balance" -> "set_balance"
                 [] e.kind = "loudcmp" -> "set_loudness_comp")

\* A command made one connection call, for the entity's own zone and
\* control, and left the cached value as it was.
CommandKeepsState ==
    CommandRan => (Len(last.sent) = 1 /\ OwnCommand(last.sent[1], last.ent) /\ Unchanged)

\* C6: a set-value or switch command makes exactly one connection call, for
\* the entity's own zone and control, and leaves the cached value as it was;
\* a cached value changes only in a step that runs the entity's callback
\* with a message of its own zone.
C6_CommandPath == [](CommandKeepsState) /\ [][OnlyOwnZoneChanges]_vars

\* C6 witness: a command that went through asked for a value other than the
\* cached one, and the cached value is still the old one.
C6_Witness ==
    /\ CommandRan
    /\ ~last.failed
    /\ last.sent[1].value # cached[last.ent]
    /\ cmdq # <<>>

\* C7: when the connection raises during a command, the handler raises too,
\* the cached value is the one before the call and no refresh is signaled.
C7_FailedCommand ==
    (CommandRan /\ last.failed) => (last.raised /\ Unchanged /\ last.refreshed = 0)

\* C7 witness: a command for a value other than the cached one failed.
C7_Witness ==
    /\ CommandRan
    /\ last.failed
    /\ last.raised
    /\ last.sent[1].value # cached[last.ent]

\* C8: while an entity is attached its cached value is the value carried by
\* the latest message of its own zone, holding every field the entity reads,
\* that was delivered to it, or the initial value when there was none.
C8_LatestMessageWins ==
    \A e \in Entities : lifecycle[e] = "attached" => cached[e] = carried[e]

\* C9: a callback run that changed the cached value signaled exactly one
\* refresh, and a run that applied no message of the entity's zone signaled
\* none.
C9_RefreshAfterMutation ==
    CallbackRan =>
        /\ ~Unchanged => last.refreshed = 1
        /\ (~OwnZone(last.ent, last.msg) \/ Lacks(last.ent, last.msg)) => last.refreshed = 0
        /\ last.refreshed \in {0, 1}

\* C10: Balance.async_set_value(x) issues set_balance(zone, "R", int(x)) for
\* x > 0, set_balance(zone, "L", int(-x)) for x < 0 and set_balance(zone,
\* "C", 0) for x = 0; the host value -5 issues set_balance(zone, "L", 5).
C10_BalanceSymmetry ==
    (last.op = "set_value" /\ last.ent.kind = "balance") =>
        /\ Len(last.sent) = 1
        /\ last.sent[1].op = "set_balance"
        /\ last.sent[1].zone = last.ent.zone
        /\ last.arg > 0 => (last.sent[1].position = "R" /\ last.sent[1].value = IntOf(last.arg))
        /\ last.arg < 0 => (last.sent[1].position = "L" /\ last.sent[1].value = IntOf(0 - last.arg))
        /\ last.arg = 0 => (last.sent[1].position = "C" /\ last.sent[1].value = 0)
        /\ last.arg = 0 - 10 => last.sent[1] = Cmd("set_balance", last.ent.zone, "L", 5)

\* C10 witness: the host value -5 was just sent by a balance entity.
C10_Witness ==
    /\ last.op = "set_value"
    /\ last.ent.kind = "balance"
    /\ last.arg = 0 - 10
    /\ last.sent = << Cmd("set_balance", last.ent.zone, "L", 5) >>
    /\ ~last.failed

\* C11: for every host value, beyond the control's max too, the magnitude
\* that Balance.async_set_value sends in set_balance is at most the balance
\* control's max.
C11_BalanceClamped ==
    conv.op = "set_balance" =>
        /\ Len(conv.sent) = 1
        /\ conv.sent[1].op = "set_balance"
        /\ conv.sent[1].value <= ranges.balance.max

Model == LEVELS.Grand_Concerto
StepBoundary(h) == \E n \in NativeVolumes : QEq(h, Q(79 - n, 79))

\* C13: for every native volume n in 0..79, hass_to_nuvo_vol(nuvo_to_hass_vol(n))
\* is n; for every host volume v that is a step boundary 1 - n/79,
\* nuvo_to_hass_vol(hass_to_nuvo_vol(v)) is v; and taking such a value from
\* host to device and back any number of times in a row leaves it where it was.
C13_VolumeRoundTrip ==
    /\ (conv.op = "nuvo_to_hass_vol" /\ conv.levels = Model) => conv.back.val = conv.native
    /\ (conv.op = "hass_to_nuvo_vol" /\ conv.levels = Model /\ StepBoundary(conv.host))
          => QEq(conv.back.val, conv.host)
    /\ conv.op = "volume_trips" =>
          (QEq(conv.out.val, conv.host) /\ conv.back.val = conv.native)

\* C13 witness: the host volume of native step 40 went to the device and
\* back MaxTrips times and is still 39/79.
C13_Witness ==
    /\ conv.op = "volume_trips"
    /\ conv.trips = MaxTrips
    /\ conv.native = 40
    /\ QEq(conv.out.val, Q(39, 79))
    /\ conv.back.val = 40

\* x is the integer nearest to p / q (q > 0), the even one of the two when
\* p / q lies halfway between them.
NearestHalfEven(x, p, q) ==
    LET diff == IF x * q >= p THEN x * q - p ELSE p - x * q
    IN /\ 2 * diff <= q
       /\ 2 * diff = q => x % 2 = 0

\* C14: for every host volume h in 0..1, hass_to_nuvo_vol(h) is the integer
\* nearest to 79 - h * 79, the even neighbour at an exact half, and lies in
\* 0..79; native 40 converts to host 1 - 40/79 and host 0.4937 converts to
\* native 40.
C14_HostToDeviceVolume ==
    /\ (conv.op = "hass_to_nuvo_vol" /\ conv.levels = Model) =>
          /\ NearestHalfEven(conv.out.val, 79 * conv.host.d - 79 * conv.host.n, conv.host.d)
          /\ conv.out.val \in 0..79
          /\ conv.out.err = "none"
          /\ conv.host = Q(4937, 10000) => conv.out.val = 40
    /\ (conv.op = "nuvo_to_hass_vol" /\ conv.levels = Model /\ conv.native = 40)
          => QEq(conv.out.val, QSub(Q(1, 1), Q(40, 79)))

\* C14 witness: host volume 81/158 lies halfway between native 38 and 39
\* and was converted to the even one, 38.
C14_Witness ==
    /\ conv.op = "hass_to_nuvo_vol"
    /\ conv.levels = Model
    /\ conv.host = Q(81, 158)
    /\ conv.out.val = 38

\* C15: for every native volume n in 0..79, nuvo_to_hass_vol(n) is
\* 1 - n / 79, where 79 is the min of the model's volume scale; it lies in
\* 0..1, native 0 gives 1, native 79 gives 0, and a lower native volume
\* gives a strictly higher host volume.
C15_DeviceToHostVolume ==
    (conv.op = "nuvo_to_hass_vol" /\ conv.levels = Model) =>
        /\ conv.out.err = "none"
        /\ QEq(conv.out.val, QSub(Q(1, 1), Q(conv.native, Model.volume.min)))
        /\ QLe(Q(0, 1), conv.out.val) /\ QLe(conv.out.val, Q(1, 1))
        /\ conv.native = 0 => QEq(conv.out.val, Q(1, 1))
        /\ conv.native = 79 => QEq(conv.out.val, Q(0, 1))
        /\ \A n \in NativeVolumes :
              n < conv.native => QLt(conv.out.val, nuvo_to_hass_vol(conv.levels, n).val)

\* C15 witness: the quietest native volume, 79, was converted to host 0.
C15_Witness ==
    /\ conv.op = "nuvo_to_hass_vol"
    /\ conv.levels = Model
    /\ conv.native = 79
    /\ QEq(conv.out.val, Q(0, 1))

Converters == {"nuvo_to_hass_vol", "hass_to_nuvo_vol", "nuvo_to_hass_eq", "hass_to_nuvo_eq"}

C17_EqExample ==
    (conv.op = "set_bass" /\ conv.back.val = FALSE /\ QEq(conv.host, Q(3, 4)))
        => conv.sent = << Cmd("set_bass", 1, "", 9) >>

\* C18: for bass and treble and every host value h in 0..1,
\* hass_to_nuvo_eq(h) is round_half_even(h * (max - min) / step + min / step)
\* times the step of the control's scale; it is a multiple of step and lies
\* in min..max.
C18_HostToDeviceEq ==
    (conv.op = "hass_to_nuvo_eq" /\ conv.levels = Model) =>
        LET s == Model[conv.ctl]
            h == conv.host
        IN /\ conv.out.err = "none"
           /\ \E x \in NativeEqs :
                 /\ conv.out.val = x * s.step
                 /\ NearestHalfEven(x, h.n * (s.max - s.min) + s.min * h.d, h.d * s.step)
           /\ conv.out.val % s.step = 0
           /\ s.min <= conv.out.val /\ conv.out.val <= s.max

\* C18 witness: host bass 0.75 is 4.5 steps, halfway between 4 and 5, and
\* was converted to 4 steps, native 8.
C18_Witness ==
    /\ conv.op = "hass_to_nuvo_eq"
    /\ conv.levels = Model
    /\ conv.ctl = "bass"
    /\ conv.host = Q(27, 36)
    /\ conv.out.val = 8

\* C19: for bass and treble and every host value v in 0..1,
\* nuvo_to_hass_eq(hass_to_nuvo_eq(v)) is within step / (max - min) of v;
\* and for every native n in min..max that is a multiple of step,
\* hass_to_nuvo_eq(nuvo_to_hass_eq(n)) is n.
C19_EqRoundTrip ==
    /\ (conv.op = "hass_to_nuvo_eq" /\ conv.levels = Model) =>
          LET s == Model[conv.ctl]
          IN /\ conv.back.err = "none"
             /\ QLe(QAbs(QSub(conv.back.val, conv.host)), Q(s.step, s.max - s.min))
    /\ (conv.op = "nuvo_to_hass_eq" /\ conv.levels = Model
            /\ conv.native % Model[conv.ctl].step = 0)
          => conv.back.val = conv.native

\* C19 witness: host treble 0.75 came back from the device as 26/36, moved
\* by rounding.
C19_Witness ==
    /\ conv.op = "hass_to_nuvo_eq"
    /\ conv.levels = Model
    /\ conv.ctl = "treble"
    /\ conv.host = Q(27, 36)
    /\ QEq(conv.back.val, Q(26, 36))
    /\ ~QEq(conv.back.val, conv.host)

\* C20: for bass and treble and every native n in min..max,
\* nuvo_to_hass_eq(n) is (n - min) / (max - min); it lies in 0..1, min gives
\* 0, max gives 1, and a higher n gives a strictly higher host value.
C20_DeviceToHostEq ==
    (conv.op = "nuvo_to_hass_eq" /\ conv.levels = Model) =>
        LET s == Model[conv.ctl]
        IN /\ conv.out.err = "none"
           /\ QEq(conv.out.val, Q(conv.native - s.min, s.max - s.min))
           /\ QLe(Q(0, 1), conv.out.val) /\ QLe(conv.out.val, Q(1, 1))
           /\ conv.native = s.min => QEq(conv.out.val, Q(0, 1))
           /\ conv.native = s.max => QEq(conv.out.val, Q(1, 1))
           /\ \A n \in NativeEqs :
                 n < conv.native
                    => QLt(nuvo_to_hass_eq(conv.levels, conv.ctl, n).val, conv.out.val)

\* C20 witness: native treble 18, the scale's max, was converted to host 1.
C20_Witness ==
    /\ conv.op = "nuvo_to_hass_eq"
    /\ conv.levels = Model
    /\ conv.ctl = "treble"
    /\ conv.native = 18
    /\ QEq(conv.out.val, Q(1, 1))

\* C21: every {min, max, step} entry of the scale table the converters
\* consume (volume, bass and treble of each model) has min <= max and
\* step > 0.
C21_ControlScale ==
    (conv.op \in Converters /\ conv.levels \in {LEVELS[m] : m \in DOMAIN LEVELS}) =>
        \A k \in DOMAIN conv.levels :
            conv.levels[k].min <= conv.levels[k].max /\ conv.levels[k].step > 0

\* The native volume that the cached host volume stands for.
CachedNative(n) == zone.volume.some /\ QEq(zone.volume.val, Q(79 - n, 79))

\* C22: every set_volume call carries a native volume within 0..79;
\* volume_up sends max(current native - volume_step, 0), volume_down sends
\* min(current native + volume_step, 79), where current native is the step
\* the cached host volume stands for; with the cached volume None neither
\* sends anything.
C22_VolumeStepping ==
    /\ \A i \in 1..Len(zlast.sent) :
          zlast.sent[i].op = "set_volume" /\ zlast.sent[i].value \in 0..79
    /\ zlast.op \in {"volume_up", "volume_down"} =>
          IF ~zone.volume.some THEN zlast.sent = <<>>
          ELSE /\ Len(zlast.sent) = 1
               /\ \E n \in NativeVolumes :
                     /\ CachedNative(n)
                     /\ zlast.op = "volume_up" =>
                           zlast.sent[1].value = Max(n - volume_step, 0)
                     /\ zlast.op = "volume_down" =>
                           zlast.sent[1].value = Min(n + volume_step, 79)

\* C22 witness: volume_up on a zone cached at the loudest volume sent
\* native 0 again.
C22_Witness ==
    /\ zlast.op = "volume_up"
    /\ CachedNative(0)
    /\ zlast.sent = << Cmd("set_volume", 1, "", 0) >>

\* C23: update with no zone_status reply returns False and changes no
\* cached field; with the zone powered off it sets the state to off and
\* changes nothing else; with the zone on and muted it sets the mute flag
\* and keeps the cached volume; the cached volume is written only with the
\* zone on and not muted.
C23_UpdateFrame ==
    /\ update(zone, amp, "status") = Updated(zone, FALSE)
    /\ \A fail \in Failures \ {"status"} :
          LET r == update(zone, amp, fail)
          IN /\ ~amp.power => r = Updated([zone EXCEPT !.state = "off"], TRUE)
             /\ (amp.power /\ amp.mute) =>
                   /\ r.zone.state = "on"
                   /\ r.zone.mute = Some(TRUE)
                   /\ r.zone.volume = zone.volume
             /\ r.zone.volume # zone.volume => (amp.power /\ ~amp.mute)
    /\ (zlast.op = "update" /\ zone.state = "none") => zone = NewZone

\* C23 witness: update just found the zone powered off; the cached volume
\* and source are still those of an earlier poll and no longer the
\* amplifier's.
C23_Witness ==
    /\ zlast.op = "update"
    /\ ~amp.power
    /\ zone.state = "off"
    /\ zone.volume.some
    /\ ~CachedNative(amp.volume)
    /\ zone.source.some
    /\ zone.source.val # amp.setting
    /\ zone.bass.some

\* C24: over any sequence of setups, unloads, reloads and restarts of one
\* config entry, FIRST_RUN is stored as True by the first successful setup
\* and by no other: that setup puts not_first_run = True into the entry
\* data, a failed setup stores nothing, and every later setup stores
\* FIRST_RUN = False.
C24_FirstRunOnce ==
    /\ setups.first_runs <= 1
    /\ setups.done = 0 => (~entry.not_first_run /\ ~entry.registered)
    /\ setups.done >= 1 => (setups.first_runs = 1 /\ entry.not_first_run)
    /\ (entry.registered /\ entry.first_run) => setups.done = 1
    /\ (entry.registered /\ setups.done > 1) => ~entry.first_run

\* C24 witness: the entry was reloaded after a change of options, it is its
\* second successful setup or a later one, and FIRST_RUN is stored as False.
C24_Witness ==
    /\ elast = "options"
    /\ entry.hstate = "loaded"
    /\ setups.done >= 2
    /\ setups.first_runs = 1
    /\ entry.registered
    /\ ~entry.first_run

\* C25: after async_unload_entry the registry holds the entry only if its
\* connection is still connected: the connection is disconnected exactly
\* when the registry entry is removed and the update listener undone, and
\* after a failed platform unload the connection is still connected.
C25_UnloadConsistent ==
    elast = "unload" =>
        /\ entry.registered <=> entry.connected
        /\ entry.registered <=> entry.listener

FlowError(outcome) == IF outcome = "serial" THEN "cannot_connect" ELSE "unknown"
WasEntered(name) == \E i \in 1..Len(flow.entered) : flow.entered[i] = name

\* C26: when connecting fails in the config flow's first step, the flow
\* records 'cannot_connect' or 'unknown', shows the user form again with
\* that error and does not enter the sources step; the sources step is
\* entered only with a connection object obtained.
C26_FlowConnectionFailure ==
    /\ (elast = "flow_user" /\ flow.outcome # "ok") =>
          /\ flow.errors = FlowError(flow.outcome)
          /\ flow.shown = flow.errors
          /\ flow.step = "user"
          /\ flow.raised = ""
          /\ ~WasEntered("sources")
    /\ WasEntered("sources") => flow.nuvo = "conn"

====
